---- MODULE Spec2Model ----
(***************************************************************************)
(* Model of LogsCommand.action (src/src/commands/logs.ts): the dispatcher  *)
(* resolves the services, creates one ts-stream Stream, attaches the       *)
(* forEach reader that logs every entry, and runs one getServiceLogs       *)
(* handler per service under Bluebird.map.                                 *)
(*                                                                         *)
(* The handlers registered by plugins are not part of the command: a       *)
(* registered handler is modelled as a process that, once invoked, may     *)
(* write entries to the stream (awaiting the write or not), return, throw, *)
(* or (when tailing) never return.  The handler used when a module type    *)
(* has nothing registered is dummyLogStreamer, modelled from its code.     *)
(*                                                                         *)
(* Two more functions are modelled, each under a specification of its own: *)
(* prepareDebugLogfiles and the page loop of UsersListCommand.action       *)
(* (src/core/src/commands/cloud/users/users-list.ts).                      *)
(***************************************************************************)
EXTENDS Integers, Sequences, FiniteSets

\* Bounds of the model: the services a run resolves, and the writes all the
\* handlers of a run make to the stream.
MaxServices == 2
MaxWrites == 3

ServiceNames == 1..MaxServices
ModuleTypes == {"container", "generic"}
\* The module types some plugin registered a getServiceLogs handler for.
Registered == {"container"}

VARIABLES
    pc,        \* position of action(): its awaits and the statements between
    error,     \* the reason action()'s promise rejected with ("none" until then)
    tail,      \* opts.tail
    services,  \* values(services): the resolved services, in map order
    next,      \* index of the next service Bluebird.map calls the mapper on
    stream,    \* the ts-stream Stream: reader count, queued writes, ended flag
    hstate,    \* per service: state of its mapper/handler invocation
    written,   \* per service: the entries its handler wrote, in write order
    log,       \* ctx.log: the records logged at info and at warn, each in call order
    result,    \* the local `result` array
    late,      \* history: the services that wrote after another's handler had failed
    calls,     \* history: the handler calls made, each with the handler and its parameters
    loose      \* history: the services whose handler did not await one of its writes

\* prepareDebugLogfiles
VARIABLES
    ppc,       \* position of prepareDebugLogfiles: the await it is at, or how it ended
    command,   \* commandFullName
    dirExists, \* whether logsDirPath exists
    dir,       \* the files of logsDirPath when listed: file -> age in days
    fstate,    \* per listed file: where its mapper call is
    settled,   \* how the promise of Bluebird.map(...).catch(...) has settled
    removed,   \* the files removed
    plog,      \* log: the records logged at debug and at warn
    retval     \* what prepareDebugLogfiles returned

\* the page loop of UsersListCommand.action
VARIABLES
    upc,       \* position of the loop: fetching, done, or failed
    page,      \* page
    users,     \* users
    hasMore,   \* hasMore
    requests,  \* history: the pages requested, in order
    responses  \* history: res.data of every response, in order

logsVars == <<pc, error, tail, services, next, stream, hstate, written, log, result, late, calls, loose>>
cleanupVars == <<ppc, command, dirExists, dir, fstate, settled, removed, plog, retval>>
usersVars == <<upc, page, users, hasMore, requests, responses>>
vars == <<logsVars, cleanupVars, usersVars>>

----------------------------------------------------------------------------
\* Helpers

\* A resolved service: service.name and service.module.type.
Service(n, t) == [name |-> n, module |-> [type |-> t]]

\* Every list of services ctx.getServices may resolve to: any number of
\* services, each of any module type.  Names are interchangeable, so the k
\* services resolved are taken to be the first k names, in map order.
ServiceLists ==
    UNION {{[i \in 1..k |-> Service(i, mt[i])] : mt \in [1..k -> ModuleTypes]} : k \in 0..MaxServices}

\* The k-th entry the handler of service n writes.  action() never looks into
\* an entry, so the handlers write a fixed text: entries of one service differ
\* in their timestamp, the handler's clock.
ServiceEntry(n, k) ==
    [serviceName |-> n, timestamp |-> k, msg |-> IF k % 2 = 1 THEN "hello" ELSE "world"]

\* timestamp.toISOString() and chalk.white / chalk.yellow: the rendered value.
ToISOString(timestamp) == <<"ISO", timestamp>>
Chalk(colour, text) == <<colour, text>>

Resolved == {services[i].name : i \in DOMAIN services}

ServiceNamed(n) == services[CHOOSE i \in DOMAIN services : services[i].name = n]

\* new Stream<ServiceLogEntry>(): no reader, nothing queued, not ended.
NoStream == [created |-> FALSE, readers |-> 0, queue |-> <<>>, ended |-> FALSE]
NewStream == [created |-> TRUE, readers |-> 0, queue |-> <<>>, ended |-> FALSE]

\* Mutant of ForEach: the reader is not attached.
ForEach_NotAttached(st) == st

\* stream.forEach(reader): attaches the reader.
ForEach(st) == [st EXCEPT !.readers = @ + 1]

\* Mutant of Write: the newest write is handed to the reader first.
Write_Newest_First(st, entry) == [st EXCEPT !.queue = <<entry>> \o @]

\* stream.write(entry): the write is queued until the reader has taken it.
Write(st, entry) == [st EXCEPT !.queue = Append(@, entry)]

\* Mutant of Taken: the write handed to the reader stays queued.
Taken_StillQueued(st) == st

\* The write the reader is handed next, and the stream once it has taken it.
NextWrite(st) == Head(st.queue)
Taken(st) == [st EXCEPT !.queue = Tail(@)]

\* ctx.log.info(record) and ctx.log.warn(record)
LogInfo(lg, record) == [lg EXCEPT !.info = Append(@, record)]
LogWarn(lg, record) == [lg EXCEPT !.warn = Append(@, record)]

\* The reader passed to forEach: ctx.log.info of the entry.
Info(entry) ==
    [section |-> entry.serviceName,
     msg |-> <<ToISOString(entry.timestamp), Chalk("white", entry.msg)>>]

\* The record dummyLogStreamer warns with: the service's name as section, and
\* its module type in the message.
Warn(service) ==
    [section |-> service.name,
     msg |-> Chalk("yellow", <<"No handler for log retrieval available for module type", service.module.type>>)]

\* Mutant of DummyLogStreamer: it returns without warning.
DummyLogStreamer_Silent(lg, service) == lg

\* dummyLogStreamer, as the logger is left by it.
DummyLogStreamer(lg, service) == LogWarn(lg, Warn(service))

\* ctx.getActionHandler("getServiceLogs", type, dummyLogStreamer)
GetActionHandler(type) == IF type \in Registered THEN "registered" ELSE "dummyLogStreamer"

\* Mutant of HandlerParams: the tail option is not passed on.
HandlerParams_TailDropped(service) == [service |-> service, stream |-> "stream", tail |-> FALSE]

\* { ctx, service, env, stream, tail: opts.tail }: what the mapper hands the
\* handler; "stream" is the one stream action() created.
HandlerParams(service) == [service |-> service, stream |-> "stream", tail |-> tail]

\* The mapper's call for a service: the handler looked up for its module
\* type, and the parameters.
HandlerCall(service) ==
    [handler |-> GetActionHandler(service.module.type), params |-> HandlerParams(service)]

\* The number of writes made to the stream so far.
RECURSIVE Sum(_, _)
Sum(f, S) == IF S = {} THEN 0 ELSE LET x == CHOOSE y \in S : TRUE IN f[x] + Sum(f, S \ {x})
Written == Sum([n \in ServiceNames |-> Len(written[n])], ServiceNames)

\* Mutant of MapFulfilled: fulfilled with the first mapper call that fulfils.
MapFulfilled_Any == \E n \in Resolved : hstate[n] = "done"

\* Bluebird.map's promise: fulfilled when every mapper call has fulfilled,
\* rejected as soon as one has rejected.
MapFulfilled == \A n \in Resolved : hstate[n] = "done"
MapRejected == \E n \in Resolved : hstate[n] = "failed"

----------------------------------------------------------------------------
\* The functions that are not the one a specification runs, not called.
LogsIdle ==
    /\ pc = "idle"
    /\ error = "none"
    /\ tail = FALSE
    /\ services = <<>>
    /\ next = 1
    /\ stream = NoStream
    /\ hstate = [n \in ServiceNames |-> "idle"]
    /\ written = [n \in ServiceNames |-> <<>>]
    /\ log = [info |-> <<>>, warn |-> <<>>]
    /\ result = <<>>
    /\ late = {}
    /\ calls = <<>>
    /\ loose = {}

CleanupIdle ==
    /\ ppc = "idle"
    /\ command = <<>>
    /\ dirExists = FALSE
    /\ dir = <<>>
    /\ fstate = <<>>
    /\ settled = "none"
    /\ removed = {}
    /\ plog = [debug |-> <<>>, warn |-> <<>>]
    /\ retval = <<>>

UsersIdle ==
    /\ upc = "idle"
    /\ page = 0
    /\ users = <<>>
    /\ hasMore = FALSE
    /\ requests = <<>>
    /\ responses = <<>>

Init ==
    /\ CleanupIdle
    /\ UsersIdle
    /\ pc = "resolving"
    /\ error = "none"
    /\ tail \in BOOLEAN
    /\ services = <<>>
    /\ next = 1
    /\ stream = NoStream
    /\ hstate = [n \in ServiceNames |-> "idle"]
    /\ written = [n \in ServiceNames |-> <<>>]
    /\ log = [info |-> <<>>, warn |-> <<>>]
    /\ result = <<>>
    /\ late = {}
    /\ calls = <<>>
    /\ loose = {}

\* line 46: ctx.getServices(names) resolves
GetServicesResolves ==
    /\ pc = "resolving"
    /\ services' \in ServiceLists
    /\ pc' = "resolved"
    /\ UNCHANGED <<error, tail, next, stream, hstate, written, log, result, late, calls, loose, cleanupVars, usersVars>>

\* Mutant of GetServicesRejects: the failure is taken for an empty list of
\* services and action() carries on.
GetServicesRejects_Swallowed ==
    /\ pc = "resolving"
    /\ pc' = "resolved"
    /\ error' = "getServices"
    /\ UNCHANGED <<tail, services, next, stream, hstate, written, log, result, late, calls, loose, cleanupVars, usersVars>>

\* line 46: ctx.getServices(names) rejects, and so does action()
GetServicesRejects ==
    /\ pc = "resolving"
    /\ pc' = "rejected"
    /\ error' = "getServices"
    /\ UNCHANGED <<tail, services, next, stream, hstate, written, log, result, late, calls, loose, cleanupVars, usersVars>>

\* lines 48-49
CreateStream ==
    /\ pc = "resolved"
    /\ result' = <<>>
    /\ stream' = NewStream
    /\ pc' = "created"
    /\ UNCHANGED <<error, tail, services, next, hstate, written, log, late, calls, loose, cleanupVars, usersVars>>

\* lines 52-55
RegisterConsumer ==
    /\ pc = "created"
    /\ stream' = ForEach(stream)
    /\ pc' = "mapping"
    /\ UNCHANGED <<error, tail, services, next, hstate, written, log, result, late, calls, loose, cleanupVars, usersVars>>

\* Mutant of InvokeHandler: the mapper is called on a service only once the
\* handlers of the services before it have returned (a map in series).
InvokeHandler_InSeries ==
    /\ pc = "mapping"
    /\ next <= Len(services)
    /\ \A i \in 1..(next - 1) : hstate[services[i].name] = "done"
    /\ LET service == services[next] IN
         IF GetActionHandler(service.module.type) = "dummyLogStreamer"
         THEN /\ log' = DummyLogStreamer(log, service)
              /\ hstate' = [hstate EXCEPT ![service.name] = "done"]
         ELSE /\ hstate' = [hstate EXCEPT ![service.name] = "running"]
              /\ log' = log
    /\ next' = next + 1
    /\ calls' = Append(calls, HandlerCall(services[next]))
    /\ UNCHANGED <<pc, error, tail, services, stream, written, result, late, loose, cleanupVars, usersVars>>

\* lines 59-61: Bluebird.map calls the mapper on the next service; the mapper
\* looks the handler up and calls it.  dummyLogStreamer has no await: it has
\* warned and returned by the time the call is back.
InvokeHandler ==
    /\ pc = "mapping"
    /\ next <= Len(services)
    /\ LET service == services[next] IN
         IF GetActionHandler(service.module.type) = "dummyLogStreamer"
         THEN /\ log' = DummyLogStreamer(log, service)
              /\ hstate' = [hstate EXCEPT ![service.name] = "done"]
         ELSE /\ hstate' = [hstate EXCEPT ![service.name] = "running"]
              /\ log' = log
    /\ next' = next + 1
    /\ calls' = Append(calls, HandlerCall(services[next]))
    /\ UNCHANGED <<pc, error, tail, services, stream, written, result, late, loose, cleanupVars, usersVars>>

\* line 59: every mapper has been called; action() awaits the map's promise
AwaitMap ==
    /\ pc = "mapping"
    /\ next > Len(services)
    /\ pc' = "awaiting"
    /\ UNCHANGED <<error, tail, services, next, stream, hstate, written, log, result, late, calls, loose, cleanupVars, usersVars>>

\* lines 59-64: the map's promise fulfils and action() returns `result`
Return ==
    /\ pc = "awaiting"
    /\ MapFulfilled
    /\ pc' = "returned"
    /\ UNCHANGED <<error, tail, services, next, stream, hstate, written, log, result, late, calls, loose, cleanupVars, usersVars>>

\* Mutant of Reject: the rejection aborts the stream, dropping the queued writes.
Reject_AbortsStream ==
    /\ pc = "awaiting"
    /\ MapRejected
    /\ pc' = "rejected"
    /\ error' = "getServiceLogs"
    /\ stream' = [stream EXCEPT !.queue = <<>>]
    /\ UNCHANGED <<tail, services, next, hstate, written, log, result, late, calls, loose, cleanupVars, usersVars>>

\* line 59: the map's promise rejects and the await throws out of action()
Reject ==
    /\ pc = "awaiting"
    /\ MapRejected
    /\ pc' = "rejected"
    /\ error' = "getServiceLogs"
    /\ UNCHANGED <<tail, services, next, stream, hstate, written, log, result, late, calls, loose, cleanupVars, usersVars>>

\* A registered handler writes an entry to the stream it was given (line 61),
\* and either awaits the write or goes on.
HandlerWrite(n) ==
    /\ hstate[n] = "running"
    /\ Written < MaxWrites
    /\ \E awaited \in BOOLEAN :
         LET entry == ServiceEntry(n, Len(written[n]) + 1) IN
         /\ stream' = Write(stream, entry)
         /\ written' = [written EXCEPT ![n] = Append(@, entry)]
         /\ hstate' = [hstate EXCEPT ![n] = IF awaited THEN "blocked" ELSE "running"]
         /\ loose' = IF awaited THEN loose ELSE loose \cup {n}
    /\ late' = IF \E f \in ServiceNames \ {n} : hstate[f] = "failed" THEN late \cup {n} ELSE late
    /\ UNCHANGED <<pc, error, tail, services, next, log, result, calls, cleanupVars, usersVars>>

\* A registered handler's promise fulfils (line 61).
HandlerReturn(n) ==
    /\ hstate[n] = "running"
    /\ hstate' = [hstate EXCEPT ![n] = "done"]
    /\ UNCHANGED <<pc, error, tail, services, next, stream, written, log, result, late, calls, loose, cleanupVars, usersVars>>

\* A registered handler throws, or its promise rejects (line 61).
HandlerThrow(n) ==
    /\ hstate[n] = "running"
    /\ hstate' = [hstate EXCEPT ![n] = "failed"]
    /\ UNCHANGED <<pc, error, tail, services, next, stream, written, log, result, late, calls, loose, cleanupVars, usersVars>>

\* lines 52-55: the stream hands its oldest queued write to the reader, which
\* logs it; the write's promise resolves, resuming the handler awaiting it.
Deliver ==
    /\ stream.readers > 0
    /\ stream.queue # <<>>
    /\ LET entry == NextWrite(stream)
           rest == Taken(stream)
           n == entry.serviceName
       IN /\ log' = LogInfo(log, Info(entry))
          /\ stream' = rest
          /\ hstate' = IF hstate[n] = "blocked" /\ \A i \in DOMAIN rest.queue : rest.queue[i].serviceName # n
                       THEN [hstate EXCEPT ![n] = "running"]
                       ELSE hstate
    /\ UNCHANGED <<pc, error, tail, services, next, written, result, late, calls, loose, cleanupVars, usersVars>>

Handler == \E n \in ServiceNames : HandlerWrite(n) \/ HandlerReturn(n) \/ HandlerThrow(n)

Next ==
    \/ GetServicesResolves
    \/ GetServicesRejects
    \/ CreateStream
    \/ RegisterConsumer
    \/ InvokeHandler
    \/ AwaitMap
    \/ Return
    \/ Reject
    \/ Handler
    \/ Deliver

Spec == Init /\ [][Next]_vars

\* The event loop runs every ready continuation: the synchronous statements of
\* action(), the stream's reader, and the settling of the map's promise.
\* Nothing makes getServices or a handler finish.
FairSpec ==
    /\ Spec
    /\ WF_vars(CreateStream)
    /\ WF_vars(RegisterConsumer)
    /\ WF_vars(InvokeHandler)
    /\ WF_vars(AwaitMap)
    /\ WF_vars(Return)
    /\ WF_vars(Reject)
    /\ WF_vars(Deliver)

----------------------------------------------------------------------------
\* What the claims speak of

Count(seq, x) == Cardinality({i \in DOMAIN seq : seq[i] = x})

\* The entries handed to the reader so far, as it logged them.
Delivered == log.info
DeliveredOf(n) == SelectSeq(log.info, LAMBDA r : r.section = n)

\* The warnings logged for service n.
WarningsOf(n) == SelectSeq(log.warn, LAMBDA r : r.section = n)

Completed == pc \in {"returned", "rejected"}
Failed == {n \in Resolved : hstate[n] = "failed"}
Active == {n \in Resolved : hstate[n] \in {"running", "blocked"}}

\* C1: when every handler succeeded, the sequence a non-tail action() returns
\* holds exactly the entries the handlers wrote, each as often as written.
C1_ReturnsWrittenEntries ==
    (pc = "returned" /\ ~tail /\ Failed = {}) =>
        /\ \A n \in Resolved : \A i \in DOMAIN written[n] :
              Count(result, written[n][i]) = Count(written[n], written[n][i])
        /\ \A i \in DOMAIN result : \E n \in Resolved : Count(written[n], result[i]) > 0

\* C2: a handler's failure is not raised to the caller: action() completes
\* normally and the failure is reported (a diagnostic naming the service).
C2_HandlerErrorNotRaised ==
    (Completed /\ Failed # {}) =>
        /\ pc = "returned"
        /\ \A n \in Failed : WarningsOf(n) # <<>>

\* C3: in non-tail mode, once a handler has failed, action() neither returns
\* nor raises while another service's handler is still running.
C3_WaitNotAborted ==
    (~tail /\ Failed # {} /\ Completed) => Active = {}

\* C4: a handler's failure cancels no other handler: neither the failure nor
\* the rejection of action() touches the other handlers or the stream, no
\* entry of another service is dropped (it is delivered or still queued), and
\* whatever is queued, before or after the failure, is handed to the reader.
C4_SiblingsStillDelivered ==
    /\ [][(Failed' # Failed \/ (pc = "awaiting" /\ pc' = "rejected")) =>
            /\ stream' = stream
            /\ \A n \in Resolved \ Failed' : hstate'[n] = hstate[n]]_vars
    /\ [](Failed # {} =>
            \A n \in Resolved : \A k \in DOMAIN written[n] :
                \/ k <= Len(DeliveredOf(n)) /\ DeliveredOf(n)[k] = Info(written[n][k])
                \/ Count(stream.queue, written[n][k]) = 1)
    /\ (Failed # {} /\ stream.queue # <<>>) ~> (stream.queue = <<>>)

\* A service wrote after another's handler had failed and action() had
\* rejected, and all it wrote has reached the reader.
C4_Witness ==
    \E n \in late :
        /\ pc = "rejected"
        /\ written[n] # <<>>
        /\ Len(DeliveredOf(n)) = Len(written[n])

\* C5: a service whose module type has no registered handler writes nothing
\* to the stream and gets exactly one warning, naming it and its module type,
\* once its handler has been called; the fallback neither throws nor blocks,
\* and the other services are still dispatched.
C5_FallbackWarnsOnce ==
    \A i \in DOMAIN services :
        LET service == services[i] IN
        service.module.type \notin Registered =>
            /\ written[service.name] = <<>>
            /\ DeliveredOf(service.name) = <<>>
            /\ hstate[service.name] = (IF i < next THEN "done" ELSE "idle")
            /\ WarningsOf(service.name) = (IF i < next THEN <<Warn(service)>> ELSE <<>>)
            /\ (pc \in {"awaiting", "returned"} \/ error = "getServiceLogs") => next = Len(services) + 1
            /\ error = "getServiceLogs" => \E f \in Failed : ServiceNamed(f).module.type \in Registered

\* The fallback has run for one service and a registered handler for another,
\* which has written since.
C5_Witness ==
    \E i, j \in DOMAIN services :
        /\ services[i].module.type \notin Registered
        /\ i < j
        /\ i < next
        /\ written[services[j].name] # <<>>
        /\ pc = "returned"

\* C6: the stream never has more than one reader, and has exactly one from
\* before the first handler is called: no handler has been called, and no
\* entry written or delivered, while the stream has no reader.
C6_ConsumerRegisteredFirst ==
    /\ stream.readers <= 1
    /\ pc \in {"mapping", "awaiting", "returned"} => stream.readers = 1
    /\ ((\E n \in ServiceNames : hstate[n] # "idle") \/ Written > 0 \/ log.info # <<>>)
          => stream.readers = 1

C6_Witness ==
    /\ stream.readers = 1
    /\ stream.queue # <<>>
    /\ \E n \in Resolved : hstate[n] = "running"

\* C7: for every service, the entries handed to the reader are, in order, the
\* first entries its handler wrote.
C7_PerServiceOrder ==
    \A n \in ServiceNames :
        /\ Len(DeliveredOf(n)) <= Len(written[n])
        /\ \A k \in DOMAIN DeliveredOf(n) : DeliveredOf(n)[k] = Info(written[n][k])

\* Two different entries of one service were delivered with an entry of
\* another service between them.
C7_Witness ==
    \E n \in Resolved :
        /\ Len(written[n]) = 2
        /\ Len(Delivered) = 3
        /\ Delivered[1].section = n
        /\ Delivered[2].section # n
        /\ Delivered[3].section = n

\* C8: when every handler succeeds, a non-tail action() returns only after
\* every handler call has completed, and does return once they all have.
C8_ReturnsWhenAllComplete ==
    /\ []((pc = "returned" /\ ~tail) => (next = Len(services) + 1 /\ \A n \in Resolved : hstate[n] = "done"))
    /\ (~tail /\ pc \notin {"resolving", "rejected"} /\ \A n \in Resolved : hstate[n] = "done")
          ~> (pc = "returned")

C8_Witness ==
    /\ pc = "returned"
    /\ ~tail
    /\ Len(services) = MaxServices
    /\ \A n \in Resolved : written[n] # <<>>

\* C9: when a non-tail action() has returned, the stream has been closed.
C9_StreamClosedOnReturn ==
    (pc = "returned" /\ ~tail) => stream.ended

\* C10: in tail mode action() never returns and never closes the stream.
C10_TailNeverReturns ==
    tail => (pc # "returned" /\ ~stream.ended)

\* C11: when ctx.getServices rejects, action() rejects with that error before
\* anything is started: no stream, no handler called, no entry written, no
\* warning logged.
C11_ResolutionFailureAborts ==
    error = "getServices" =>
        /\ pc = "rejected"
        /\ stream = NoStream
        /\ \A n \in ServiceNames : hstate[n] = "idle" /\ written[n] = <<>>
        /\ next = 1
        /\ log = [info |-> <<>>, warn |-> <<>>]

C11_Witness == pc = "rejected" /\ error = "getServices"

\* C12: with no service resolved, action() calls no handler, closes the
\* stream and returns an empty sequence, with tail or without.
C12_NoServicesClosesAndReturns ==
    (pc = "returned" /\ services = <<>>) =>
        /\ \A n \in ServiceNames : hstate[n] = "idle"
        /\ result = <<>>
        /\ stream.ended

\* C13: a tail-mode action() that is over (it ends only by being cancelled)
\* has closed the stream and left no handler in flight to write to it.
C13_TailEndsClosedAndReleased ==
    (tail /\ Completed /\ stream.created) => (stream.ended /\ Active = {})

\* C14: every resolved service's handler is called before action() waits for
\* any of them: calling the next handler never waits for those called
\* before, whatever state they are in, and by the time action() awaits the
\* map every handler has been called.
C14_AllStartedBeforeWaiting ==
    /\ (pc = "mapping" /\ next <= Len(services)) => ENABLED InvokeHandler
    /\ (pc \in {"awaiting", "returned"} \/ error = "getServiceLogs") =>
          /\ next = Len(services) + 1
          /\ \A n \in Resolved : hstate[n] # "idle"

\* The first service's handler has neither written nor returned, and the
\* second's has been called and its entry delivered.
C14_Witness ==
    /\ Len(services) >= 2
    /\ hstate[services[1].name] = "running"
    /\ written[services[1].name] = <<>>
    /\ DeliveredOf(services[2].name) # <<>>

\* C15: one handler call is made per resolved service, in map order: the
\* registered handler of its module type if there is one, dummyLogStreamer if
\* and only if there is none; every call is handed the one stream and the
\* tail option of this action().
C15_OneCallPerService ==
    /\ Len(calls) = next - 1
    /\ (pc \in {"awaiting", "returned"} \/ error = "getServiceLogs") => Len(calls) = Len(services)
    /\ \A i \in DOMAIN calls :
          /\ calls[i].params.service = services[i]
          /\ calls[i].params.stream = "stream"
          /\ calls[i].params.tail = tail
          /\ (calls[i].handler = "dummyLogStreamer") <=> (services[i].module.type \notin Registered)
          /\ (calls[i].handler = "registered") <=> (services[i].module.type \in Registered)

\* Both kinds of handler have been called in a tail-mode action().
C15_Witness ==
    /\ tail
    /\ pc = "awaiting"
    /\ \E i, j \in DOMAIN calls : calls[i].handler = "registered" /\ calls[j].handler = "dummyLogStreamer"

\* The writes of service n still queued in the stream.
QueuedOf(n) == SelectSeq(stream.queue, LAMBDA e : e.serviceName = n)

\* Every entry written is in exactly one place, once: logged by the reader or
\* still queued, in write order.
ExactlyOnce ==
    \A n \in ServiceNames :
        /\ Len(DeliveredOf(n)) + Len(QueuedOf(n)) = Len(written[n])
        /\ \A k \in DOMAIN DeliveredOf(n) : DeliveredOf(n)[k] = Info(written[n][k])
        /\ \A k \in DOMAIN QueuedOf(n) : QueuedOf(n)[k] = written[n][Len(DeliveredOf(n)) + k]

----------------------------------------------------------------------------
\* prepareDebugLogfiles (users-list.ts, lines 149-189).  Strings are sequences
\* of characters, so that replace and match are computed on them.

logfileExpiryDays == 7

\* Bound: the files in the logs directory.
MaxFiles == 2

Debug == <<"d", "e", "b", "u", "g">>
Silly == <<"s", "i", "l", "l", "y">>
Json == <<"j", "s", "o", "n">>
LogExt == <<"l", "o", "g">>
JsonlExt == <<"j", "s", "o", "n", "l">>
DotLog == <<".", "l", "o", "g">>

\* The commands run: "build" and "get x".
Commands == {<<"b", "u", "i", "l", "d">>, <<"g", "e", "t", " ", "x">>}

\* new Date().toISOString(), shortened
NowISO == <<"1", "T", "2", ".", "3", "Z">>

\* s.replace(a, b) with a string pattern: the first occurrence only
RECURSIVE Replace(_, _, _)
Replace(s, a, b) ==
    IF s = <<>> THEN <<>>
    ELSE IF Head(s) = a THEN <<b>> \o Tail(s)
    ELSE <<Head(s)>> \o Replace(Tail(s), a, b)

MakeLogfileName(logLevel, commandFullName, extension) ==
    Replace(commandFullName, " ", "-") \o <<".">> \o logLevel \o <<".">> \o NowISO \o <<".">> \o extension

\* What prepareDebugLogfiles returns.
ReturnValue(commandFullName) ==
    [debugLogfileName |-> MakeLogfileName(Debug, commandFullName, LogExt),
     jsonLogfileName |-> MakeLogfileName(Silly, commandFullName, JsonlExt)]

\* word occurs in s at position i
SubAt(s, i, word) == i + Len(word) - 1 <= Len(s) /\ SubSeq(s, i, i + Len(word) - 1) = word

\* filename.match(/<word>.*\.log/)
Matches(filename, word) ==
    \E i \in 1..Len(filename) :
        /\ SubAt(filename, i, word)
        /\ \E j \in (i + Len(word))..Len(filename) : SubAt(filename, j, DotLog)

\* line 161: the files the mapper does not return early on
IsCleanedUp(filename) == Matches(filename, Debug) \/ Matches(filename, Json)

\* line 167: moment(stat.birthtime).add(logfileExpiryDays, "days").isBefore(moment()),
\* with the birthtime given as the file's age in days
IsExpired(age) == (0 - age) + logfileExpiryDays < 0

\* The files a logs directory may hold, with what each is: the debug and JSON
\* logfiles of the two commands as makeLogfileName names them, a file that is
\* no logfile ("notes.txt"), and a JSON logfile named "build.json.log".
Files == <<
    [name |-> MakeLogfileName(Debug, <<"b", "u", "i", "l", "d">>, LogExt), kind |-> "debug"],
    [name |-> MakeLogfileName(Silly, <<"b", "u", "i", "l", "d">>, JsonlExt), kind |-> "json"],
    [name |-> MakeLogfileName(Debug, <<"g", "e", "t", " ", "x">>, LogExt), kind |-> "debug"],
    [name |-> <<"n", "o", "t", "e", "s", ".", "t", "x", "t">>, kind |-> "other"],
    [name |-> <<"b", "u", "i", "l", "d", ".", "j", "s", "o", "n", ".", "l", "o", "g">>, kind |-> "json"] >>

Ages == {6, 7, 8}

\* The listings of the logs directory: at most MaxFiles files, each of any age.
Dirs == UNION {[S -> Ages] : S \in {T \in SUBSET (DOMAIN Files) : Cardinality(T) <= MaxFiles}}

CleanupInit ==
    /\ LogsIdle
    /\ UsersIdle
    /\ ppc = "pathExists"
    /\ command \in Commands
    /\ dirExists \in BOOLEAN
    /\ dir \in (IF dirExists THEN Dirs ELSE {<<>>})
    /\ fstate = [f \in DOMAIN dir |-> "none"]
    /\ settled = "none"
    /\ removed = {}
    /\ plog = [debug |-> <<>>, warn |-> <<>>]
    /\ retval = <<>>

\* Mutant of CatchBlock: no catch, the error leaves prepareDebugLogfiles.
CatchBlock_Rethrows ==
    /\ ppc' = "threw"
    /\ UNCHANGED <<plog, retval>>

\* lines 175-183: the catch block warns, and the function returns the names
CatchBlock ==
    /\ plog' = [plog EXCEPT !.warn = Append(@, "An error occurred while cleaning up debug logfiles")]
    /\ ppc' = "returned"
    /\ retval' = ReturnValue(command)

\* line 157: pathExists resolves; without a directory the function returns
PathExistsResolves ==
    /\ ppc = "pathExists"
    /\ IF dirExists
       THEN ppc' = "listDirectory" /\ retval' = retval
       ELSE ppc' = "returned" /\ retval' = ReturnValue(command)
    /\ UNCHANGED <<command, dirExists, dir, fstate, settled, removed, plog, logsVars, usersVars>>

\* line 157: pathExists rejects
PathExistsRejects ==
    /\ ppc = "pathExists"
    /\ CatchBlock
    /\ UNCHANGED <<command, dirExists, dir, fstate, settled, removed, logsVars, usersVars>>

\* lines 158-183: listDirectory resolves; Bluebird.map is started and not
\* awaited: each mapper call returns early or is left awaiting lstat, and the
\* function returns the names
ListDirectoryResolves ==
    /\ ppc = "listDirectory"
    /\ fstate' = [f \in DOMAIN dir |-> IF IsCleanedUp(Files[f].name) THEN "lstat" ELSE "done"]
    /\ settled' = "pending"
    /\ ppc' = "returned"
    /\ retval' = ReturnValue(command)
    /\ UNCHANGED <<command, dirExists, dir, removed, plog, logsVars, usersVars>>

\* line 158: listDirectory rejects
ListDirectoryRejects ==
    /\ ppc = "listDirectory"
    /\ CatchBlock
    /\ UNCHANGED <<command, dirExists, dir, fstate, settled, removed, logsVars, usersVars>>

\* lines 165-169: lstat resolves; an expired file is logged and its removal awaited
LstatResolves(f) ==
    /\ fstate[f] = "lstat"
    /\ IF IsExpired(dir[f])
       THEN /\ plog' = [plog EXCEPT !.debug = Append(@, f)]
            /\ fstate' = [fstate EXCEPT ![f] = "remove"]
       ELSE /\ plog' = plog
            /\ fstate' = [fstate EXCEPT ![f] = "done"]
    /\ UNCHANGED <<ppc, command, dirExists, dir, settled, removed, retval, logsVars, usersVars>>

\* line 165: lstat rejects
LstatRejects(f) ==
    /\ fstate[f] = "lstat"
    /\ fstate' = [fstate EXCEPT ![f] = "failed"]
    /\ UNCHANGED <<ppc, command, dirExists, dir, settled, removed, plog, retval, logsVars, usersVars>>

\* line 169: remove resolves
RemoveResolves(f) ==
    /\ fstate[f] = "remove"
    /\ removed' = removed \cup {f}
    /\ fstate' = [fstate EXCEPT ![f] = "done"]
    /\ UNCHANGED <<ppc, command, dirExists, dir, settled, plog, retval, logsVars, usersVars>>

\* line 169: remove rejects
RemoveRejects(f) ==
    /\ fstate[f] = "remove"
    /\ fstate' = [fstate EXCEPT ![f] = "failed"]
    /\ UNCHANGED <<ppc, command, dirExists, dir, settled, removed, plog, retval, logsVars, usersVars>>

\* lines 160-170: every mapper call has fulfilled, and so does the map
MapFulfils ==
    /\ settled = "pending"
    /\ \A f \in DOMAIN fstate : fstate[f] = "done"
    /\ settled' = "fulfilled"
    /\ UNCHANGED <<ppc, command, dirExists, dir, fstate, removed, plog, retval, logsVars, usersVars>>

\* lines 171-173: a mapper call has rejected, so does the map, and its catch warns
MapCatch ==
    /\ settled = "pending"
    /\ \E f \in DOMAIN fstate : fstate[f] = "failed"
    /\ settled' = "caught"
    /\ plog' = [plog EXCEPT !.warn = Append(@, "An error occurred while cleaning up debug logfiles")]
    /\ UNCHANGED <<ppc, command, dirExists, dir, fstate, removed, retval, logsVars, usersVars>>

Mapper == \E f \in DOMAIN fstate : LstatResolves(f) \/ LstatRejects(f) \/ RemoveResolves(f) \/ RemoveRejects(f)

CleanupNext ==
    \/ PathExistsResolves
    \/ PathExistsRejects
    \/ ListDirectoryResolves
    \/ ListDirectoryRejects
    \/ Mapper
    \/ MapFulfils
    \/ MapCatch

CleanupSpec == CleanupInit /\ [][CleanupNext]_vars

\* C17: prepareDebugLogfiles never throws and returns the two logfile names,
\* whichever of pathExists, listDirectory, lstat and remove fails; when it
\* returns no removal has been started, let alone finished; and the failure
\* of a file's cleanup leaves the returned names alone and is logged as one
\* warning.
C17_NeverThrowsNeverWaits ==
    /\ [](ppc \in {"pathExists", "listDirectory", "returned"})
    /\ [](ppc = "returned" => retval = ReturnValue(command))
    /\ [][(ppc # "returned" /\ ppc' = "returned") =>
            /\ removed' = {}
            /\ \A f \in DOMAIN fstate' : fstate'[f] \in {"none", "lstat", "done"}]_vars
    /\ []((\E f \in DOMAIN fstate : fstate[f] = "failed") => (ppc = "returned" /\ Len(plog.warn) <= 1))
    /\ [](settled = "caught" => Len(plog.warn) = 1)

\* The function has returned, the cleanup of one file has failed and been
\* warned about, and another file has been removed since.
C17_Witness ==
    /\ ppc = "returned"
    /\ settled = "caught"
    /\ removed # {}

\* The cleanup has come to its end.
CleanupOver == ppc = "returned" /\ settled = "fulfilled"

\* C18: the cleanup removes every debug or JSON logfile older than
\* logfileExpiryDays days, those named by makeLogfileName included, and no
\* other file.
C18_RemovesExpiredLogfiles ==
    CleanupOver =>
        \A f \in DOMAIN dir :
            (f \in removed) <=> (Files[f].kind \in {"debug", "json"} /\ dir[f] > logfileExpiryDays)

----------------------------------------------------------------------------
\* The page loop of UsersListCommand.action (users-list.ts, lines 80-92).

\* Bounds: the pages with data the API serves, and the users on a page.
MaxPages == 2
MaxPageLen == 2

\* The users the API knows.
ApiUsers == {"ada", "gordon"}

\* res.data of one response: a page of at most MaxPageLen users, or none
Pages == UNION {[1..n -> ApiUsers] : n \in 0..MaxPageLen}

\* line 89: a UserResult made of a user of the response
MakeUserFromResponse(user) == <<"UserResult", user>>

\* line 89: res.data.map((user) => makeUserFromResponse(user))
MapUsers(data) == [i \in 1..Len(data) |-> MakeUserFromResponse(data[i])]

UsersInit ==
    /\ LogsIdle
    /\ CleanupIdle
    /\ upc = "loop"
    /\ page = 0
    /\ users = <<>>
    /\ hasMore = TRUE
    /\ requests = <<>>
    /\ responses = <<>>

\* lines 83-85: hasMore holds; the page is logged and requested
RequestPage ==
    /\ upc = "loop"
    /\ hasMore
    /\ requests' = Append(requests, page)
    /\ upc' = "awaiting"
    /\ UNCHANGED <<page, users, hasMore, responses, logsVars, cleanupVars>>

\* line 83: hasMore does not hold; the loop is left
LoopExit ==
    /\ upc = "loop"
    /\ ~hasMore
    /\ upc' = "done"
    /\ UNCHANGED <<page, users, hasMore, requests, responses, logsVars, cleanupVars>>

\* Mutant of GetResolves: the page number is not advanced.
GetResolves_SamePage(data) ==
    /\ upc = "awaiting"
    /\ data # <<>> => Len(responses) < MaxPages
    /\ responses' = Append(responses, data)
    /\ IF Len(data) = 0
       THEN hasMore' = FALSE /\ users' = users
       ELSE hasMore' = hasMore /\ users' = users \o MapUsers(data)
    /\ page' = page
    /\ upc' = "loop"
    /\ UNCHANGED <<requests, logsVars, cleanupVars>>

\* lines 85-91: api.get resolves with a page; an empty one ends the loop, the
\* users of another are pushed and the page number advanced
GetResolves(data) ==
    /\ upc = "awaiting"
    /\ data # <<>> => page < MaxPages
    /\ responses' = Append(responses, data)
    /\ IF Len(data) = 0
       THEN hasMore' = FALSE /\ users' = users /\ page' = page
       ELSE hasMore' = hasMore /\ users' = users \o MapUsers(data) /\ page' = page + 1
    /\ upc' = "loop"
    /\ UNCHANGED <<requests, logsVars, cleanupVars>>

\* line 85: api.get rejects, and action() with it
GetRejects ==
    /\ upc = "awaiting"
    /\ upc' = "failed"
    /\ UNCHANGED <<page, users, hasMore, requests, responses, logsVars, cleanupVars>>

UsersNext ==
    \/ RequestPage
    \/ LoopExit
    \/ \E data \in Pages : GetResolves(data)
    \/ GetRejects

UsersSpec == UsersInit /\ [][UsersNext]_vars

\* The users of the pages received, in page order.
RECURSIVE Concatenated(_)
Concatenated(pages) ==
    IF pages = <<>> THEN <<>> ELSE MapUsers(Head(pages)) \o Concatenated(Tail(pages))

\* C19: the loop requests the pages 0, 1, 2, ... in this order, each once;
\* no page is requested after the first page without data; the users
\* accumulated are those of the pages with data, concatenated in page
\* order; and the loop is left if and only if a page without data has been
\* received: until then it keeps requesting.
C19_PagesInOrderUntilEmpty ==
    /\ \A i \in 1..Len(requests) : requests[i] = i - 1
    /\ \A i \in 1..Len(responses) : responses[i] = <<>> => (i = Len(responses) /\ Len(requests) = i)
    /\ users = Concatenated(responses)
    /\ upc = "done" => (responses # <<>> /\ responses[Len(responses)] = <<>>)
    /\ (responses # <<>> /\ responses[Len(responses)] = <<>>) => (~hasMore /\ upc \in {"loop", "done"})
    /\ (\A i \in 1..Len(responses) : responses[i] # <<>>) => (hasMore /\ upc # "done")
    /\ (upc = "loop" /\ hasMore) => ENABLED RequestPage
    /\ (upc = "loop" /\ ~hasMore) => (ENABLED LoopExit /\ ~ENABLED RequestPage)

\* The loop has been left after two pages with data and one without.
C19_Witness ==
    /\ upc = "done"
    /\ Len(requests) = 3
    /\ Len(users) > 2

====
